---- MODULE Spec2Model ----
(***************************************************************************)
(* Client controller of static/script.js: session store (authToken,        *)
(* currentUser, localStorage), document list, chat message list, and the   *)
(* fetch() requests the handlers leave in flight.                          *)
(*                                                                         *)
(* One action is one run of a handler up to its next await (or its end),   *)
(* or one continuation of an async function after its awaited response.    *)
(* JavaScript is single threaded, so each of these runs atomically.        *)
(*                                                                         *)
(* Values.  A JS string is a TLA+ string; null in a string-typed slot is   *)
(* the value null.  A JS object is a record; null in an object-typed slot  *)
(* is nullObj.  JSON text and HTML are sequences of string tokens.         *)
(*                                                                         *)
(* The values of form fields and of #chat-input are not state: the user    *)
(* types and submits in one step, the text being the action's parameter.   *)
(* A section that is not displayed receives no user event.                 *)
(*                                                                         *)
(* Bookkeeping that is not program state: ops counts the user operations   *)
(* that issued a request; the call field of a request and of a message     *)
(* names the sendMessage invocation that made it (0 for every other one).  *)
(***************************************************************************)
EXTENDS Integers, Sequences, FiniteSets, Bags, TLC

\* ---------------------------------------------------------------- bounds
\* Number of user operations that issue a request (login, register, upload,
\* ask, clear) in one behaviour.
MaxOps == 2

\* ---------------------------------------------------------------- values
null == "<null>"
nullObj == [full_name |-> "<null>"]

Ada == [full_name |-> "Ada"]
Bob == [full_name |-> "Bob"]

\* What POST /auth/login answers with on 2xx: {access_token, user_info}.
LoginResults == { [access_token |-> "tok1", user_info |-> Ada],
                  [access_token |-> "tok2", user_info |-> Bob] }

\* JSON.stringify of a user_info object, as a token sequence.
JSONstringify(obj) == <<"{", "full_name", ":", obj.full_name, "}">>

\* JSON.parse: the texts it accepts, and what it yields for them.
JSONparses(text) ==
    /\ Len(text) = 5
    /\ text[1] = "{" /\ text[2] = "full_name" /\ text[3] = ":" /\ text[5] = "}"

\* JSONparse reading the key where the value stands.
JSONparseKey(text) == [full_name |-> text[2]]

JSONparse(text) == [full_name |-> text[4]]

\* Values of the two localStorage entries at page load.  An entry that is
\* missing reads as null (authToken) or as the empty text (currentUser): both
\* are falsy in the test of line 11.
StoredTokens == {null, "tok1"}
StoredUsers  == { <<>>, JSONstringify(Ada), <<"{", "full_name">> }

\* JS truthiness of a string-or-null value, and of a JSON text.
TruthyStr(s)  == s # null /\ s # ""
TruthyText(t) == t # <<>>

VARIABLES
    started,      \* the DOMContentLoaded handler has run
    keyHandler,   \* the keypress listener of #chat-input is registered
    uncaught,     \* an error left a handler uncaught
    authToken,    \* line 2
    currentUser,  \* line 3
    lsToken,      \* localStorage 'authToken'
    lsUser,       \* localStorage 'currentUser'
    view,         \* which of #auth-section / #main-section is displayed
    userName,     \* #user-name textContent
    messages,     \* children of #chat-messages
    docList,      \* innerHTML of #document-list
    sendDisabled, \* #send-btn disabled
    loading,      \* #loading displayed
    authMessage,  \* #auth-message while displayed
    inflight,     \* bag of fetch() requests not yet settled
    ops           \* request-issuing user operations so far

vars == <<started, keyHandler, uncaught, authToken, currentUser, lsToken, lsUser,
          view, userName, messages, docList, sendDisabled, loading, authMessage,
          inflight, ops>>

session == <<authToken, currentUser, lsToken, lsUser>>
chrome  == <<view, userName, loading, authMessage>>
chat    == <<messages, sendDisabled>>
boot    == <<started, keyHandler, uncaught>>

\* ------------------------------------------------------------- responses
\* What a fetch() can settle with.  status 0: no response (fetch rejects).
\* json: the body parses, so response.json() resolves; otherwise it throws.
\* detail is null when the body carries no detail field.
NetworkError == [status |-> 0,   json |-> FALSE, detail |-> null]
BadBody      == [status |-> 502, json |-> FALSE, detail |-> null]
Rejected     == [status |-> 500, json |-> TRUE,  detail |-> "index unavailable"]
RejectedBare == [status |-> 500, json |-> TRUE,  detail |-> null]
AuthRejected == [status |-> 401, json |-> TRUE,  detail |-> "Not authenticated"]
Accepted     == [status |-> 200, json |-> TRUE,  detail |-> null]

Failures == {NetworkError, BadBody, Rejected, AuthRejected}

\* response.ok
Ok(resp) == resp.status >= 200 /\ resp.status <= 299
\* fetch() resolved and response.json() resolved
Parsed(resp) == resp.status # 0 /\ resp.json

\* -------------------------------------------------------------- requests
Req(kind, call, question, files) ==
    [kind |-> kind, call |-> call, question |-> question, files |-> files]
LoginReq    == Req("login", 0, <<>>, <<>>)
RegisterReq == Req("register", 0, <<>>, <<>>)
ListReq     == Req("list", 0, <<>>, <<>>)
HistoryReq  == Req("history", 0, <<>>, <<>>)
ClearReq    == Req("clear", 0, <<>>, <<>>)
AskReq(call, q) == Req("ask", call, q, <<>>)
UploadReq(fs) == Req("upload", 0, <<>>, fs)

Issue(bag, req)  == bag (+) SetToBag({req})
Settle(bag, req) == bag (-) SetToBag({req})
InFlight(kind)   == { r \in BagToSet(inflight) : r.kind = kind }

\* ------------------------------------------------------------ utilities
\* showMessage displaying one fixed text whatever it is given.
showMessageFixed(message, type) ==
    [text |-> "Network error. Please try again.", kind |-> type]

\* showMessage: the banner text and kind now displayed.
showMessage(message, type) == [text |-> message, kind |-> type]
hidden == [text |-> "", kind |-> ""]

\* addMessage: one more child of #chat-messages; the sources block is
\* rendered only for a non-empty source list.
RECURSIVE RenderSources(_)
RenderSources(sources) ==
    IF sources = <<>> THEN <<>>
    ELSE <<"source-item", Head(sources)>> \o RenderSources(Tail(sources))

addMessage(msgs, role, content, sources) ==
    Append(msgs, [role |-> role,
                  html |-> IF Len(sources) > 0
                           THEN content \o <<"Sources:">> \o RenderSources(sources)
                           ELSE content,
                  call |-> 0])

\* msgs with its last message marked as made by sendMessage invocation `call`.
ByCall(msgs, call) == [msgs EXCEPT ![Len(msgs)].call = call]

\* showMainApp: the #user-name text after it ran with current user u.
showMainAppName(u, old) == IF u # nullObj THEN u.full_name ELSE old

\* ------------------------------------------------------------------ Init
\* The page before DOMContentLoaded: the globals of lines 2-3, an untouched
\* DOM, and whatever the two localStorage entries hold.
Init ==
    /\ started = FALSE /\ keyHandler = FALSE /\ uncaught = FALSE
    /\ authToken = null /\ currentUser = nullObj
    /\ lsToken \in StoredTokens /\ lsUser \in StoredUsers
    /\ view = "auth" /\ userName = ""
    /\ messages = <<>> /\ docList = <<>>
    /\ sendDisabled = FALSE /\ loading = FALSE /\ authMessage = hidden
    /\ inflight = EmptyBag
    /\ ops = 0

\* --------------------------------------------------------------- startup
\* DOMContentLoaded handler.  JSON.parse of line 13 throws on a text that is
\* not JSON: authToken is then already assigned and nothing after line 13 runs.
DOMContentLoaded ==
    /\ ~started
    /\ started' = TRUE
    /\ IF TruthyStr(lsToken) /\ TruthyText(lsUser)
       THEN /\ authToken' = lsToken
            /\ IF JSONparses(lsUser)
               THEN /\ currentUser' = JSONparse(lsUser)
                    /\ view' = "main"
                    /\ userName' = showMainAppName(JSONparse(lsUser), userName)
                    /\ inflight' = Issue(Issue(inflight, HistoryReq), ListReq)
                    /\ keyHandler' = TRUE
                    /\ UNCHANGED uncaught
               ELSE /\ uncaught' = TRUE
                    /\ UNCHANGED <<currentUser, view, userName, inflight, keyHandler>>
       ELSE /\ keyHandler' = TRUE
            /\ UNCHANGED <<authToken, currentUser, view, userName, inflight, uncaught>>
    /\ UNCHANGED <<lsToken, lsUser, messages, docList, sendDisabled, loading,
                   authMessage, ops>>

\* ------------------------------------------------------------ authentication
Usernames == {"", "ada"}
Passwords == {"", "secret"}

\* handleLogin up to its await (lines 41-62); only the auth view shows the form.
handleLogin(username, password) ==
    /\ started /\ view = "auth"
    /\ IF username = "" \/ password = ""
       THEN /\ authMessage' = showMessage("Please enter both username and password", "error")
            /\ UNCHANGED <<loading, inflight, ops>>
       ELSE /\ ops < MaxOps
            /\ loading' = TRUE
            /\ inflight' = Issue(inflight, LoginReq)
            /\ ops' = ops + 1
            /\ UNCHANGED authMessage
    /\ UNCHANGED <<boot, session, view, userName, chat, docList>>

\* handleLogin after its await (lines 64-84), for a 2xx answer `result`.
LoginOk(result) ==
    /\ LoginReq \in InFlight("login")
    /\ authToken' = result.access_token
    /\ currentUser' = result.user_info
    /\ lsToken' = result.access_token
    /\ lsUser' = JSONstringify(result.user_info)
    /\ view' = "main"
    /\ userName' = showMainAppName(result.user_info, userName)
    /\ inflight' = Issue(Issue(Settle(inflight, LoginReq), HistoryReq), ListReq)
    /\ loading' = FALSE
    /\ UNCHANGED <<boot, chat, docList, authMessage, ops>>

\* handleLogin after its await, for a failure (lines 77-84).
LoginFailed(resp) ==
    /\ LoginReq \in InFlight("login")
    /\ inflight' = Settle(inflight, LoginReq)
    /\ authMessage' =
          IF Parsed(resp)
          THEN showMessage(IF resp.detail # null THEN resp.detail ELSE "Login failed", "error")
          ELSE showMessage("Network error. Please try again.", "error")
    /\ loading' = FALSE
    /\ UNCHANGED <<boot, session, view, userName, chat, docList, ops>>

\* handleRegister up to its await (lines 87-119).
RegisterForms == { [username |-> "ada", email |-> "a@x", fullName |-> "Ada", password |-> "secret"],
                   [username |-> "ada", email |-> "",    fullName |-> "Ada", password |-> "secret"],
                   [username |-> "ada", email |-> "a@x", fullName |-> "Ada", password |-> "short"] }
MinPasswordLength == 6
\* password.length, for the passwords of RegisterForms
length(str) == CASE str = "secret" -> 6 [] str = "short" -> 5 [] OTHER -> 0

handleRegister(form) ==
    /\ started /\ view = "auth"
    /\ IF form.username = "" \/ form.email = "" \/ form.fullName = "" \/ form.password = ""
       THEN /\ authMessage' = showMessage("Please fill in all fields", "error")
            /\ UNCHANGED <<loading, inflight, ops>>
       ELSE IF length(form.password) < MinPasswordLength
       THEN /\ authMessage' = showMessage("Password must be at least 6 characters", "error")
            /\ UNCHANGED <<loading, inflight, ops>>
       ELSE /\ ops < MaxOps
            /\ loading' = TRUE
            /\ inflight' = Issue(inflight, RegisterReq)
            /\ ops' = ops + 1
            /\ UNCHANGED authMessage
    /\ UNCHANGED <<boot, session, view, userName, chat, docList>>

\* handleRegister after its await (lines 121-135).  switchTab('login') hides
\* the banner that line 124 has just shown.
RegisterSettled(resp) ==
    /\ RegisterReq \in InFlight("register")
    /\ inflight' = Settle(inflight, RegisterReq)
    /\ authMessage' =
          IF Parsed(resp)
          THEN IF Ok(resp) THEN hidden
               ELSE showMessage(IF resp.detail # null THEN resp.detail
                                ELSE "Registration failed", "error")
          ELSE showMessage("Network error. Please try again.", "error")
    /\ loading' = FALSE
    /\ UNCHANGED <<boot, session, view, userName, chat, docList, ops>>

\* switchTab (lines 28-39): the tab classes are not modelled; hideMessage.
switchTab ==
    /\ started /\ view = "auth"
    /\ authMessage' = hidden
    /\ UNCHANGED <<boot, session, view, userName, chat, docList, loading, inflight, ops>>

\* The timer showMessage starts (lines 353-355).
MessageTimeout ==
    /\ authMessage # hidden
    /\ authMessage' = hidden
    /\ UNCHANGED <<boot, session, view, userName, chat, docList, loading, inflight, ops>>

\* logout (lines 138-154); its button is in the main view.
logout ==
    /\ started /\ view = "main"
    /\ authToken' = null /\ currentUser' = nullObj
    /\ lsToken' = null /\ lsUser' = <<>>
    /\ view' = "auth"
    /\ messages' = <<>>
    /\ docList' = <<>>
    /\ UNCHANGED <<boot, userName, sendDisabled, loading, authMessage, inflight, ops>>

\* ------------------------------------------------------------------ chat
\* Texts typed into #chat-input, as token sequences; " " is white space.
Inputs == { <<" ">>, <<" ", "Q1", " ">> }

\* String.prototype.trim
RECURSIVE TrimLeft(_)
TrimLeft(text) ==
    IF text # <<>> /\ Head(text) = " " THEN TrimLeft(Tail(text)) ELSE text
RECURSIVE TrimRight(_)
TrimRight(text) ==
    IF text # <<>> /\ text[Len(text)] = " "
    THEN TrimRight(SubSeq(text, 1, Len(text) - 1)) ELSE text
trim(text) == TrimRight(TrimLeft(text))

\* A 2xx answer of POST /chat/ask: {answer, sources}.
AskAnswers ==
    { [status |-> 200, json |-> TRUE, detail |-> null, answer |-> <<"A2">>, sources |-> <<"s1">>] }

\* `${result.detail}`: a missing detail prints as "undefined".
Interpolate(detail) == IF detail = null THEN "undefined" ELSE detail

\* sendMessage up to its await (lines 238-260).
sendMessage(text) ==
    LET message == trim(text) IN
    IF message = <<>>
    THEN UNCHANGED vars
    ELSE /\ ops < MaxOps
         /\ sendDisabled' = TRUE
         /\ messages' = ByCall(addMessage(messages, "user", message, <<>>), ops + 1)
         /\ inflight' = Issue(inflight, AskReq(ops + 1, message))
         /\ ops' = ops + 1
         /\ UNCHANGED <<boot, session, chrome, docList>>

\* A click on #send-btn: a disabled button dispatches no click.
ClickSend(text) ==
    /\ started /\ view = "main"
    /\ ~sendDisabled
    /\ sendMessage(text)

\* Enter in #chat-input (lines 20-24).
PressEnter(text) ==
    /\ started /\ view = "main"
    /\ keyHandler
    /\ sendMessage(text)

\* AskReply with the detail of a rejection never read.
AskReplyIgnoresDetail(msgs, resp) ==
    IF Parsed(resp) /\ Ok(resp)
    THEN addMessage(msgs, "assistant", resp.answer, resp.sources)
    ELSE addMessage(msgs, "assistant",
                    <<"Sorry, there was a connection error. Please try again.">>, <<>>)

\* The messages after sendMessage's await settled with resp (lines 262-270).
AskReply(msgs, resp) ==
    IF Parsed(resp)
    THEN IF Ok(resp)
         THEN addMessage(msgs, "assistant", resp.answer, resp.sources)
         ELSE addMessage(msgs, "assistant", <<"Error: ", Interpolate(resp.detail)>>, <<>>)
    ELSE addMessage(msgs, "assistant",
                    <<"Sorry, there was a connection error. Please try again.">>, <<>>)

\* sendMessage after its await (lines 262-273).
AskSettled(req, resp) ==
    /\ req \in InFlight("ask")
    /\ inflight' = Settle(inflight, req)
    /\ messages' = ByCall(AskReply(messages, resp), req.call)
    /\ sendDisabled' = FALSE
    /\ UNCHANGED <<boot, session, chrome, docList, ops>>

\* A 2xx answer of GET /chat/history: {history: [{message, response, sources}]}.
Item1 == [message |-> <<"Q1">>, response |-> <<"A1">>, sources |-> <<>>]
Item2 == [message |-> <<"Q2">>, response |-> <<"A2">>, sources |-> <<"s1">>]
Histories == { <<>>, <<Item1, Item2>> }
HistoryAnswers ==
    { [status |-> 200, json |-> TRUE, detail |-> null, history |-> h] : h \in Histories }

\* The forEach of lines 316-319, on the container msgs.
RECURSIVE AppendHistory(_, _)
AppendHistory(msgs, history) ==
    IF history = <<>> THEN msgs
    ELSE AppendHistory(
           addMessage(addMessage(msgs, "user", Head(history).message, <<>>),
                      "assistant", Head(history).response, Head(history).sources),
           Tail(history))

\* result.history of a parsed body; a body without the field gives none.
HistoryField(resp) == IF "history" \in DOMAIN resp THEN resp.history ELSE <<>>

\* HistoryView emptying the container before the answer is looked at.
HistoryViewResetsFirst(msgs, resp) ==
    IF Parsed(resp) /\ Len(HistoryField(resp)) > 0
    THEN AppendHistory(<<>>, HistoryField(resp))
    ELSE IF Parsed(resp) /\ Ok(resp) THEN msgs ELSE <<>>

\* HistoryView without the reset of line 314.
HistoryViewKeepsOld(msgs, resp) ==
    IF Parsed(resp) /\ Len(HistoryField(resp)) > 0
    THEN AppendHistory(msgs, HistoryField(resp))
    ELSE msgs

\* The messages after loadChatHistory's await settled with resp (lines 310-323).
HistoryView(msgs, resp) ==
    IF Parsed(resp) /\ Len(HistoryField(resp)) > 0
    THEN AppendHistory(<<>>, HistoryField(resp))
    ELSE msgs

\* loadChatHistory after its await (lines 310-323).
HistorySettled(resp) ==
    /\ HistoryReq \in InFlight("history")
    /\ inflight' = Settle(inflight, HistoryReq)
    /\ messages' = HistoryView(messages, resp)
    /\ UNCHANGED <<boot, session, chrome, docList, sendDisabled, ops>>

\* clearChatHistory up to its await (lines 326-335); confirmed is the answer
\* to confirm().
clearChatHistory(confirmed) ==
    /\ started /\ view = "main"
    /\ IF confirmed
       THEN /\ ops < MaxOps
            /\ inflight' = Issue(inflight, ClearReq)
            /\ ops' = ops + 1
       ELSE UNCHANGED <<inflight, ops>>
    /\ UNCHANGED <<boot, session, chrome, chat, docList>>

\* ClearView without the reset of line 338.
ClearViewKeepsList(msgs, resp) ==
    IF resp.status # 0
    THEN IF Ok(resp)
         THEN addMessage(msgs, "system", <<"Chat history cleared successfully!">>, <<>>)
         ELSE msgs
    ELSE addMessage(msgs, "system",
                    <<"Error clearing chat history. Please try again.">>, <<>>)

\* The messages after clearChatHistory's await settled (lines 337-343): the
\* catch runs only when fetch itself rejects; the body is never read.
ClearView(msgs, resp) ==
    IF resp.status # 0
    THEN IF Ok(resp)
         THEN addMessage(<<>>, "system", <<"Chat history cleared successfully!">>, <<>>)
         ELSE msgs
    ELSE addMessage(msgs, "system",
                    <<"Error clearing chat history. Please try again.">>, <<>>)

ClearSettled(resp) ==
    /\ ClearReq \in InFlight("clear")
    /\ inflight' = Settle(inflight, ClearReq)
    /\ messages' = ClearView(messages, resp)
    /\ UNCHANGED <<boot, session, chrome, docList, sendDisabled, ops>>

\* ------------------------------------------------------------- documents
FileA == [name |-> "a.pdf", type |-> "application/pdf"]
FileB == [name |-> "b.txt", type |-> "text/plain"]
FileC == [name |-> "c.pdf", type |-> "application/pdf"]
Selections == { <<>>, <<FileB>>, <<FileA, FileB, FileC>> }

\* PdfFiles without the media-type test of line 173.
PdfFilesUnfiltered(files) == files

\* The files the forEach of lines 172-176 appends to the form data.
RECURSIVE PdfFiles(_)
PdfFiles(files) ==
    IF files = <<>> THEN <<>>
    ELSE IF Head(files).type = "application/pdf"
         THEN <<Head(files)>> \o PdfFiles(Tail(files))
         ELSE PdfFiles(Tail(files))

\* handleFileUpload up to its await (lines 166-192).
handleFileUpload(files) ==
    /\ started /\ view = "main"
    /\ IF Len(files) = 0
       THEN UNCHANGED <<authMessage, loading, inflight, ops>>
       ELSE IF PdfFiles(files) = <<>>
       THEN /\ authMessage' = showMessage("Please select PDF files only", "error")
            /\ UNCHANGED <<loading, inflight, ops>>
       ELSE /\ ops < MaxOps
            /\ loading' = TRUE
            /\ inflight' = Issue(inflight, UploadReq(PdfFiles(files)))
            /\ ops' = ops + 1
            /\ UNCHANGED authMessage
    /\ UNCHANGED <<boot, session, view, userName, chat, docList>>

\* A 2xx answer of POST /documents/upload: one document per file received.
UploadAnswer(req) ==
    [status |-> 200, json |-> TRUE, detail |-> null, documents |-> req.files]

\* UploadReport putting its message in an emptied container.
UploadReportAlone(msgs, resp) ==
    IF Parsed(resp) /\ Ok(resp)
    THEN addMessage(<<>>, "system",
           <<"Successfully processed ", ToString(Len(resp.documents)), " documents!">>, <<>>)
    ELSE addMessage(<<>>, "system",
                    <<"Error uploading documents. Please try again.">>, <<>>)

\* The messages after handleFileUpload's await settled (lines 194-203).
UploadReport(msgs, resp) ==
    IF Parsed(resp)
    THEN IF Ok(resp)
         THEN addMessage(msgs, "system",
                <<"Successfully processed ", ToString(Len(resp.documents)), " documents!">>, <<>>)
         ELSE addMessage(msgs, "system", <<"Error: ", Interpolate(resp.detail)>>, <<>>)
    ELSE addMessage(msgs, "system",
                    <<"Error uploading documents. Please try again.">>, <<>>)

\* handleFileUpload after its await (lines 194-207).
UploadSettled(req, resp) ==
    /\ req \in InFlight("upload")
    /\ messages' = UploadReport(messages, resp)
    /\ inflight' = IF Parsed(resp) /\ Ok(resp)
                   THEN Issue(Settle(inflight, req), ListReq)
                   ELSE Settle(inflight, req)
    /\ loading' = FALSE
    /\ UNCHANGED <<boot, session, view, userName, authMessage, docList, sendDisabled, ops>>

\* A 2xx answer of GET /documents/list: {documents: [DocumentRecord]}.
Doc1 == [filename |-> "a.pdf", processed_at |-> "2024-01-01", chunk_count |-> 3]
ListAnswers ==
    { [status |-> 200, json |-> TRUE, detail |-> null, documents |-> d] : d \in {<<>>, <<Doc1>>} }

RECURSIVE RenderDocuments(_)
RenderDocuments(documents) ==
    IF documents = <<>> THEN <<>>
    ELSE <<"document-item", Head(documents).filename, Head(documents).processed_at,
           ToString(Head(documents).chunk_count), " chunks">>
         \o RenderDocuments(Tail(documents))

DocumentsField(resp) == IF "documents" \in DOMAIN resp THEN resp.documents ELSE <<>>

\* DocumentsView adding the items to what #document-list already shows.
DocumentsViewAdds(old, resp) ==
    IF Parsed(resp)
    THEN IF Len(DocumentsField(resp)) > 0
         THEN old \o RenderDocuments(DocumentsField(resp))
         ELSE old \o <<"No documents uploaded yet">>
    ELSE old

\* #document-list after loadDocuments' await settled (lines 218-234).
DocumentsView(old, resp) ==
    IF Parsed(resp)
    THEN IF Len(DocumentsField(resp)) > 0
         THEN RenderDocuments(DocumentsField(resp))
         ELSE <<"No documents uploaded yet">>
    ELSE old

\* loadDocuments after its await (lines 218-234).
ListSettled(resp) ==
    /\ ListReq \in InFlight("list")
    /\ inflight' = Settle(inflight, ListReq)
    /\ docList' = DocumentsView(docList, resp)
    /\ UNCHANGED <<boot, session, chrome, chat, ops>>

\* ---------------------------------------------------------------- reload
\* The user reloads the page: the script's globals and the DOM start over,
\* the continuations of the old page never run, localStorage stays.
Reload ==
    /\ started
    /\ started' = FALSE /\ keyHandler' = FALSE /\ uncaught' = FALSE
    /\ authToken' = null /\ currentUser' = nullObj
    /\ view' = "auth" /\ userName' = ""
    /\ messages' = <<>> /\ docList' = <<>>
    /\ sendDisabled' = FALSE /\ loading' = FALSE /\ authMessage' = hidden
    /\ inflight' = EmptyBag
    /\ UNCHANGED <<lsToken, lsUser, ops>>

\* ------------------------------------------------------------------ Next
Next ==
    \/ DOMContentLoaded
    \/ Reload
    \/ \E u \in Usernames, p \in Passwords : handleLogin(u, p)
    \/ \E result \in LoginResults : LoginOk(result)
    \/ \E resp \in Failures \cup {RejectedBare} : LoginFailed(resp)
    \/ \E form \in RegisterForms : handleRegister(form)
    \/ \E resp \in {Accepted, RejectedBare} \cup Failures : RegisterSettled(resp)
    \/ switchTab
    \/ MessageTimeout
    \/ logout
    \/ \E text \in Inputs : ClickSend(text)
    \/ \E text \in Inputs : PressEnter(text)
    \/ \E req \in InFlight("ask"), resp \in AskAnswers \cup Failures : AskSettled(req, resp)
    \/ \E resp \in HistoryAnswers \cup Failures : HistorySettled(resp)
    \/ \E confirmed \in BOOLEAN : clearChatHistory(confirmed)
    \/ \E resp \in {Accepted} \cup Failures : ClearSettled(resp)
    \/ \E files \in Selections : handleFileUpload(files)
    \/ \E req \in InFlight("upload") : \E resp \in {UploadAnswer(req)} \cup Failures :
          UploadSettled(req, resp)
    \/ \E resp \in ListAnswers \cup Failures : ListSettled(resp)

Spec == Init /\ [][Next]_vars

\* ============================================================ properties
\* Number of requests of one kind in flight.
InFlightCount(kind) ==
    BagCardinality([r \in InFlight(kind) |-> CopiesIn(r, inflight)])

SessionAbsent ==
    /\ authToken = null /\ currentUser = nullObj
    /\ lsToken = null /\ lsUser = <<>>

\* A step in which the continuation of an authenticated call runs.
AuthenticatedSettle ==
    \/ \E req \in InFlight("ask"), resp \in AskAnswers \cup Failures : AskSettled(req, resp)
    \/ \E resp \in HistoryAnswers \cup Failures : HistorySettled(resp)
    \/ \E resp \in {Accepted} \cup Failures : ClearSettled(resp)
    \/ \E req \in InFlight("upload") : \E resp \in {UploadAnswer(req)} \cup Failures :
          UploadSettled(req, resp)
    \/ \E resp \in ListAnswers \cup Failures : ListSettled(resp)

\* C1: at most one question is in flight at a time: no ask request is issued
\* while an earlier ask request has not completed.
C1_OneAskInFlight == InFlightCount("ask") <= 1

\* C2: the submission control is disabled if and only if an ask request is in
\* flight.
C2_DisabledIffSending == sendDisabled <=> InFlightCount("ask") > 0

\* C3: once logged out (session absent in memory and in storage, message list
\* and document list empty), the response of a request that was in flight at
\* logout is discarded: the session stays absent and both lists stay empty.
C3_StaleResponseDiscarded ==
    [][ (started /\ view = "auth" /\ SessionAbsent /\ messages = <<>> /\ docList = <<>>
         /\ AuthenticatedSettle)
        => (SessionAbsent /\ messages = <<>> /\ docList = <<>>)' ]_vars

\* C4: when the reply to a question is appended, no other reply stands
\* between the user message of that question and the reply.
C4_ReplyFollowsOwnQuestion ==
    [][ \A req \in InFlight("ask"), resp \in AskAnswers \cup Failures :
          AskSettled(req, resp) =>
            \A i \in 1..Len(messages) :
               (messages[i].role = "user" /\ messages[i].call = req.call)
               => \A j \in (i+1)..Len(messages) : messages[j].role # "assistant" ]_vars

\* Storage as the program leaves it: both entries or neither (lines 71-72
\* and 141-142 write and remove them together).
InitPaired == Init /\ ((lsToken = null) <=> (lsUser = <<>>))
SpecPaired == InitPaired /\ [][Next]_vars

\* C5: after startup, the credential and the identity are both present or
\* both absent, in memory and in durable storage.
C5_CredentialIdentityTogether ==
    started =>
      /\ (authToken = null) <=> (currentUser = nullObj)
      /\ (lsToken = null) <=> (lsUser = <<>>)

\* C6: startup restores a session only from two present entries whose
\* identity parses; for any other stored content no error is thrown and the
\* key handler is still registered.
C6_RestoreNeverThrows ==
    [][ DOMContentLoaded =>
          /\ (authToken' # null \/ currentUser' # nullObj)
               => (TruthyStr(lsToken) /\ TruthyText(lsUser) /\ JSONparses(lsUser))
          /\ ~uncaught'
          /\ keyHandler' ]_vars

\* A step in which an authenticated call settles with an authentication-
\* rejected response.
AuthRejectedSettle ==
    \/ \E req \in InFlight("ask") : AskSettled(req, AuthRejected)
    \/ HistorySettled(AuthRejected)
    \/ ClearSettled(AuthRejected)
    \/ \E req \in InFlight("upload") : UploadSettled(req, AuthRejected)
    \/ ListSettled(AuthRejected)

\* C7: an authentication-rejected response to an authenticated call destroys
\* the session; a session appears in memory only through a successful login
\* response or the startup restore.
C7_AuthRejectionEndsSession ==
    [][ /\ AuthRejectedSettle => SessionAbsent'
        /\ (authToken = null /\ authToken' # null)
             => (DOMContentLoaded \/ \E result \in LoginResults : LoginOk(result)) ]_vars

Last(seq) == seq[Len(seq)]
Contains(html, token) == \E i \in 1..Len(html) : html[i] = token
\* new is old with exactly one message of the given role appended.
OneAppended(old, new, role) ==
    /\ Len(new) = Len(old) + 1
    /\ SubSeq(new, 1, Len(old)) = old
    /\ Last(new).role = role

\* C8: an ask that ends with a non-success status and a detail appends one
\* assistant message whose text contains the detail; an ask that obtains no
\* response appends one assistant message of another wording, without any
\* detail; either way every earlier message stays and the submission control
\* is enabled again.
C8_AskFailureReported ==
    [][ \A req \in InFlight("ask") :
          /\ \A resp \in {Rejected, AuthRejected} :
                AskSettled(req, resp) =>
                  /\ OneAppended(messages, messages', "assistant")
                  /\ Contains(Last(messages').html, resp.detail)
                  /\ ~sendDisabled'
          /\ AskSettled(req, NetworkError) =>
                  /\ OneAppended(messages, messages', "assistant")
                  /\ ~Contains(Last(messages').html, "Error: ")
                  /\ \A resp \in {Rejected, AuthRejected} :
                        ~Contains(Last(messages').html, resp.detail)
                  /\ ~sendDisabled' ]_vars

\* Two questions were asked one after the other; the first was rejected with
\* a detail, the second got no response; each reply follows its question.
C8_Witness ==
    /\ Len(messages) = 4
    /\ messages[1].role = "user" /\ messages[1].call = 1
    /\ messages[2].role = "assistant" /\ messages[2].call = 1
    /\ Contains(messages[2].html, Rejected.detail)
    /\ messages[3].role = "user" /\ messages[3].call = 2
    /\ messages[4].role = "assistant" /\ messages[4].call = 2
    /\ ~Contains(messages[4].html, "Error: ")
    /\ ~sendDisabled /\ InFlightCount("ask") = 0

\* The message list a server history stands for: per item, in order, the
\* question as a user message, then the response with its sources as an
\* assistant message.
ExpectedHistory(history) ==
    [ i \in 1..(2 * Len(history)) |->
        LET item == history[(i + 1) \div 2] IN
        IF i % 2 = 1
        THEN [role |-> "user", html |-> item.message, call |-> 0]
        ELSE [role |-> "assistant",
              html |-> IF item.sources = <<>> THEN item.response
                       ELSE item.response \o <<"Sources:">> \o RenderSources(item.sources),
              call |-> 0] ]

\* C9 as stated: a successful history load leaves exactly the reconstructed
\* list, for every server history, the empty one included.
C9_HistoryAlwaysReplaces ==
    [][ \A resp \in HistoryAnswers :
          HistorySettled(resp) => messages' = ExpectedHistory(resp.history) ]_vars

\* C9 as amended: a successful history load with a non-empty history leaves
\* exactly the reconstructed list; with an empty history it leaves the list
\* as it was.
C9_HistoryReplacesWhenNonEmpty ==
    [][ \A resp \in HistoryAnswers :
          HistorySettled(resp) =>
            messages' = IF resp.history # <<>>
                        THEN ExpectedHistory(resp.history)
                        ELSE messages ]_vars

\* The restored page shows the two-item history and nothing else, before the
\* user has asked, uploaded or cleared anything.
C9_Witness ==
    /\ started /\ ops = 0
    /\ InFlightCount("history") = 0
    /\ messages = ExpectedHistory(<<Item1, Item2>>)

\* C10: a failed clearHistory appends one system message and keeps every
\* earlier one; a successful one leaves exactly one system message; the
\* request is issued only on a confirmed request, a declined one changing
\* nothing.
C10_ClearOutcome ==
    [][ /\ \A resp \in Failures :
              ClearSettled(resp) => OneAppended(messages, messages', "system")
        /\ ClearSettled(Accepted) => (Len(messages') = 1 /\ messages'[1].role = "system")
        /\ clearChatHistory(FALSE) => UNCHANGED vars
        /\ (InFlightCount("clear")' > InFlightCount("clear")) => clearChatHistory(TRUE) ]_vars

\* What a handler that stops at a validation check may do: no request, the
\* session, both lists and the submission control as they were, and the
\* banner displayed.
ValidationStep ==
    /\ inflight' = inflight
    /\ UNCHANGED <<session, messages, docList, sendDisabled>>
    /\ authMessage' # hidden

InvalidForm(form) ==
    \/ form.username = "" \/ form.email = "" \/ form.fullName = "" \/ form.password = ""
    \/ length(form.password) < 6

\* C11: a login without username or password, a registration with an empty
\* field or a password of fewer than 6 characters, a question that is empty
\* after trimming and a file selection without any PDF file issue no request,
\* leave the session, the message list, the document list and the submission
\* control as they were, and display a message: in no state can one of these
\* handlers run and end otherwise.
C11_ValidationReported ==
    /\ \A u \in Usernames, p \in Passwords :
          (u = "" \/ p = "") => ~ENABLED (handleLogin(u, p) /\ ~ValidationStep)
    /\ \A form \in RegisterForms :
          InvalidForm(form) => ~ENABLED (handleRegister(form) /\ ~ValidationStep)
    /\ \A text \in Inputs :
          (trim(text) = <<>>) =>
             ~ENABLED ((ClickSend(text) \/ PressEnter(text)) /\ ~ValidationStep)
    /\ \A files \in Selections :
          (PdfFiles(files) = <<>>) => ~ENABLED (handleFileUpload(files) /\ ~ValidationStep)

\* The selected files whose declared media type is PDF, in selection order.
PdfOnly(files) == SelectSeq(files, LAMBDA f : f.type = "application/pdf")

\* handleFileUpload(files) issues one upload request carrying exactly body.
UploadCarries(files, body) ==
    ~ENABLED (handleFileUpload(files) /\ inflight' # Issue(inflight, UploadReq(body)))

\* handleFileUpload(files) issues no request.
UploadIssuesNothing(files) ==
    ~ENABLED (handleFileUpload(files) /\ inflight' # inflight)

Saved(result) ==
    /\ lsToken = result.access_token
    /\ lsUser = JSONstringify(result.user_info)

\* C13: a successful login saves its session; a page reload keeps what is
\* saved and resets the memory; the startup that follows yields an in-memory
\* session equal to the saved one, without an error: for every session a
\* login response carries.
C13_SessionRoundTrip ==
    [][ \A result \in LoginResults :
          /\ LoginOk(result) => Saved(result)'
          /\ (Saved(result) /\ Reload)
               => (Saved(result)' /\ authToken' = null /\ currentUser' = nullObj)
          /\ (Saved(result) /\ DOMContentLoaded)
               => /\ authToken' = result.access_token
                  /\ currentUser' = result.user_info
                  /\ ~uncaught' ]_vars

\* The page was reloaded after a login saved Bob's session (no page starts
\* with it): the memory is reset, and the startup from here restores it.
C13_Witness ==
    /\ ~started /\ authToken = null /\ currentUser = nullObj
    /\ Saved([access_token |-> "tok2", user_info |-> Bob])
    /\ ENABLED (DOMContentLoaded /\ authToken' = "tok2" /\ currentUser' = Bob
                /\ view' = "main")

\* C14: a 2xx login answer with a token and user info makes the in-memory
\* session exactly that pair, stores both entries and shows the main view; a
\* login that fails leaves the in-memory session, the storage and the view as
\* they were and displays an error banner: the detail when the answer carries
\* one, the network text when no response was obtained.
C14_LoginOutcome ==
    [][ /\ \A result \in LoginResults :
              LoginOk(result) =>
                /\ authToken' = result.access_token
                /\ currentUser' = result.user_info
                /\ Saved(result)'
                /\ view' = "main"
        /\ \A resp \in Failures \cup {RejectedBare} :
              LoginFailed(resp) =>
                /\ UNCHANGED <<authToken, currentUser, lsToken, lsUser, view>>
                /\ authMessage' # hidden /\ authMessage'.kind = "error"
                /\ (resp \in {Rejected, AuthRejected}) => authMessage'.text = resp.detail
                /\ (resp = NetworkError)
                     => authMessage'.text = "Network error. Please try again." ]_vars

\* A first login was rejected with a detail, which the banner took; a second
\* one succeeded with Bob's session, now in memory and in storage.
C14_Witness ==
    /\ started /\ view = "main" /\ ops = 2
    /\ authToken = "tok2" /\ currentUser = Bob
    /\ Saved([access_token |-> "tok2", user_info |-> Bob])
    /\ authMessage.text = AuthRejected.detail
    /\ InFlightCount("login") = 0

\* The message list of a cleared history: the notice of the clearing alone.
Cleared ==
    << [role |-> "system", html |-> <<"Chat history cleared successfully!">>, call |-> 0] >>

\* C15: every confirmed clearHistory answered with success leaves the same
\* list, the notice of the clearing alone: no question, no answer and no
\* error message; answered so twice in a row, the second leaves what the
\* first left.
C15_ClearIdempotent ==
    [][ ClearSettled(Accepted) =>
          /\ messages' = Cleared
          /\ (messages = Cleared) => (messages' = messages) ]_vars

\* Two clearHistory requests were confirmed; the first was answered with
\* success, the second is in flight and its success leaves the list as it is.
C15_Witness ==
    /\ started /\ view = "main" /\ ops = 2
    /\ messages = Cleared
    /\ InFlightCount("clear") = 1
    /\ ENABLED (ClearSettled(Accepted) /\ messages' = messages)

\* msgs shows the user message that sendMessage invocation `call` appended.
Asked(msgs, call) ==
    \E i \in 1..Len(msgs) : msgs[i].role = "user" /\ msgs[i].call = call

\* C16: a user message appended by submitQuestion stays in the visible list
\* unless a confirmed clearHistory succeeds, the user logs out or the page
\* is reloaded; in particular the answer of getHistory arriving after the
\* question was submitted does not remove it.
C16_QuestionsStay ==
    [][ \/ \A call \in 1..ops : Asked(messages, call) => Asked(messages', call)
        \/ ClearSettled(Accepted)
        \/ logout
        \/ Reload ]_vars

\* C17: a loadHistory that fails (non-success answer, answer that does not
\* parse, no answer) leaves the message list, the document list, the session
\* and the submission control as they were, and with them all that the Send
\* button, the Enter key and sendMessage look at: a question that could be
\* submitted before can be submitted after.  It reads: the step leaves all
\* this alone, or it is not the end of a failed loadHistory.
C17_HistoryFailureHarmless ==
    [][ \/ UNCHANGED <<messages, docList, authToken, currentUser, lsToken, lsUser,
                       sendDisabled, started, view, keyHandler>>
        \/ ~\E resp \in Failures : HistorySettled(resp) ]_vars

\* A question got its reply while the history request of the page load was
\* in flight; that request now fails without a parsable answer, and the list
\* stays as it is.
C17_Witness ==
    /\ started /\ view = "main" /\ ops = 1
    /\ Len(messages) = 2 /\ Asked(messages, 1) /\ messages[2].role = "assistant"
    /\ ~sendDisabled
    /\ InFlightCount("history") = 1
    /\ ENABLED (HistorySettled(BadBody) /\ messages' = messages)

\* What the document panel shows for a server list: five tokens per
\* document, in the server's order, or the placeholder for no document.
Shown(documents) ==
    IF documents = <<>> THEN <<"No documents uploaded yet">>
    ELSE [ i \in 1..(5 * Len(documents)) |->
             LET d == documents[(i + 4) \div 5] IN
             CASE i % 5 = 1 -> "document-item"
               [] i % 5 = 2 -> d.filename
               [] i % 5 = 3 -> d.processed_at
               [] i % 5 = 4 -> ToString(d.chunk_count)
               [] OTHER     -> " chunks" ]

\* A step that ends with the session restored from storage.
Restored == DOMContentLoaded /\ authToken' # null /\ currentUser' # nullObj

\* Number of document refreshes in flight.
Refreshes == CopiesIn(ListReq, inflight)

\* C18: an upload answered with success, a startup that restores a session
\* and a successful login each issue exactly one document refresh, and no
\* other step issues one; a refresh answer that parses replaces the whole
\* displayed list with the server's list, an empty list or a body without
\* list giving the placeholder (an answer arrives only in a step that takes a
\* refresh out of flight).
C18_RefreshIssuedAndShown ==
    [][ /\ \A req \in InFlight("upload") :
              UploadSettled(req, UploadAnswer(req)) => Refreshes' = Refreshes + 1
        /\ Restored => Refreshes' = Refreshes + 1
        /\ \A result \in LoginResults :
              LoginOk(result) => Refreshes' = Refreshes + 1
        /\ (Refreshes' > Refreshes)
              => \/ Restored
                 \/ \E result \in LoginResults : LoginOk(result)
                 \/ \E req \in InFlight("upload") : UploadSettled(req, UploadAnswer(req))
        /\ (Refreshes' < Refreshes) =>
              /\ \A resp \in ListAnswers :
                    ListSettled(resp) => docList' = Shown(resp.documents)
              /\ \A resp \in {Rejected, AuthRejected} :
                    ListSettled(resp) => docList' = Shown(<<>>) ]_vars

\* An upload was answered with success; every refresh issued so far has been
\* answered, and the panel shows the server's one document.
C18_Witness ==
    /\ started /\ view = "main"
    /\ Len(messages) > 0 /\ Last(messages).role = "system"
    /\ Contains(Last(messages).html, "Successfully processed ")
    /\ InFlightCount("upload") = 0 /\ InFlightCount("list") = 0
    /\ docList = Shown(<<Doc1>>)

\* The request req goes out of flight.
Ends(req) == CopiesIn(req, inflight') < CopiesIn(req, inflight)

\* The steps of the document operations and of the chat operations.  The
\* end of an operation takes its request out of flight: that is looked at
\* first.
RefreshStep ==
    /\ Ends(ListReq)
    /\ \E resp \in ListAnswers \cup Failures : ListSettled(resp)
UploadIssueStep == \E files \in Selections : handleFileUpload(files)
UploadSettleStep ==
    \E req \in InFlight("upload") :
       /\ Ends(req)
       /\ \E resp \in {UploadAnswer(req)} \cup Failures : UploadSettled(req, resp)
ChatStep ==
    \/ \E text \in Inputs : ClickSend(text) \/ PressEnter(text)
    \/ \E req \in InFlight("ask") :
          /\ Ends(req)
          /\ \E resp \in AskAnswers \cup Failures : AskSettled(req, resp)
    \/ /\ Ends(HistoryReq)
       /\ \E resp \in HistoryAnswers \cup Failures : HistorySettled(resp)
    \/ \E confirmed \in BOOLEAN : clearChatHistory(confirmed)
    \/ /\ Ends(ClearReq)
       /\ \E resp \in {Accepted} \cup Failures : ClearSettled(resp)

\* C19 as stated: a document refresh and a document upload never change the
\* chat message list or the session; submitQuestion, loadHistory and
\* clearHistory never change the document list or the session.  Each line
\* reads: the step leaves this alone, or it is not a step of that operation.
C19_OwnedStateOnly ==
    [][ /\ \/ UNCHANGED <<messages, authToken, currentUser, lsToken, lsUser>>
           \/ ~(RefreshStep \/ UploadIssueStep \/ UploadSettleStep)
        /\ \/ UNCHANGED <<docList, authToken, currentUser, lsToken, lsUser>>
           \/ ~ChatStep ]_vars

\* C19 as amended: a document refresh changes neither the chat message list,
\* the submission control nor the session; a document upload changes neither
\* the document list, the submission control nor the session, and of the
\* chat message list only this: when its answer or its failure arrives, one
\* system message reporting the outcome is appended; submitQuestion,
\* loadHistory and clearHistory change neither the document list nor the
\* session.  Each line reads: the step leaves this alone, or it is not a
\* step of that operation.
C19_OwnedStatePlusReport ==
    [][ /\ \/ UNCHANGED <<messages, sendDisabled, authToken, currentUser, lsToken, lsUser>>
           \/ ~RefreshStep
        /\ \/ UNCHANGED <<messages, docList, sendDisabled,
                          authToken, currentUser, lsToken, lsUser>>
           \/ ~UploadIssueStep
        /\ \/ /\ UNCHANGED <<docList, sendDisabled, authToken, currentUser, lsToken, lsUser>>
              /\ OneAppended(messages, messages', "system")
           \/ ~UploadSettleStep
        /\ \/ UNCHANGED <<docList, authToken, currentUser, lsToken, lsUser>>
           \/ ~ChatStep ]_vars

\* A question was submitted, then an upload was answered: its report stands
\* after the question, the document panel still being as the page load left
\* it.
C19_Witness ==
    /\ started /\ view = "main" /\ ops = 2
    /\ Len(messages) = 2 /\ Asked(messages, 1)
    /\ messages[2].role = "system"
    /\ InFlightCount("upload") = 0 /\ InFlightCount("ask") = 1
    /\ docList = <<>>

\* Number of login, register and upload requests in flight.
Busy == InFlightCount("login") + InFlightCount("register") + InFlightCount("upload")

\* C20: the loading indicator is displayed exactly while a login, register
\* or upload request is in flight; in particular it is not turned off while
\* one of two overlapping operations is still in flight.
C20_LoadingIffBusy == loading <=> Busy > 0

====
